---- MODULE Spec2Model ----
(***************************************************************************)
(* The todo front end: the application shell TodoApp (its three pieces of  *)
(* state and its async handlers), the TodoForm draft, and the REST backend *)
(* the handlers talk to.  Every await of a handler is a point where other  *)
(* events interleave: a request is first served by the backend and its     *)
(* response is delivered to the handler's continuation later.              *)
(***************************************************************************)
EXTENDS Integers, Sequences, FiniteSets, Bags, TLC

\* ---------------------------------------------------------------- bounds
\* number of handlers the user may start after the mount
MaxHandlers == 2
\* number of those that may be todo submissions
MaxSubmits == 1

\* ----------------------------------------------------------- input domains
\* non-empty todo texts the user types
Texts == {"x"}
\* label names the user types
Names == {"a", "b"}
\* the value null of `number | null`; label ids are never negative
Null == -1

VARIABLES
    todos,          \* TodoApp: useState<Todo[]>
    labels,         \* TodoApp: useState<Label[]>
    filterLabelId,  \* TodoApp: useState<number | null>
    editText,       \* TodoForm: draft text
    editLabels,     \* TodoForm: draft label selection
    mounted,        \* the root has rendered and run its mount effects
    hs,             \* the handler invocations suspended at an await (a bag)
    started,        \* how many handlers the user has started
    submitted,      \* how many of them are todo submissions
    srvTodos,       \* backend: the todos table (with its joined labels)
    srvLabels,      \* backend: the labels table
    srvTodoSeq,     \* backend: next todo id
    srvLabelSeq,    \* backend: next label id
    suppressed      \* which local validations have refused an action so far

vars == <<todos, labels, filterLabelId, editText, editLabels, mounted, hs, started,
          submitted,          srvTodos, srvLabels, srvTodoSeq, srvLabelSeq, suppressed>>

front == <<todos, labels, filterLabelId, editText, editLabels>>
back  == <<srvTodos, srvLabels, srvTodoSeq, srvLabelSeq>>

\* ------------------------------------------------------------------ types
Label(i, n) == [id |-> i, name |-> n]
Todo(i, t, c, ls) == [id |-> i, text |-> t, completed |-> c, labels |-> ls]

\* ---------------------------------------------------------------- helpers
Range(s) == {s[i] : i \in DOMAIN s}

\* editLabels.map((label) => label.id)
Ids(ls) == [i \in DOMAIN ls |-> ls[i].id]

\* labels.some((label) => label.name === name)
SomeName(ls, name) == \E i \in DOMAIN ls : ls[i].name = name

\* prev.filter((label) => label.id !== id)
FilterOutId(ls, id) == SelectSeq(ls, LAMBDA l : l.id # id)

\* JavaScript truthiness of a `number | null`
Truthy(v) == v # Null /\ v # 0

\* toggling a label adds it to / removes it from the draft selection
toggleLabels(prev, label) ==
    IF label \in Range(prev)
    THEN SelectSeq(prev, LAMBDA l : l # label)
    ELSE Append(prev, label)

\* the todos handed to TodoList
dispTodo ==
    IF Truthy(filterLabelId)
    THEN SelectSeq(todos, LAMBDA todo :
             \E i \in DOMAIN todo.labels : todo.labels[i].id = filterLabelId)
    ELSE todos

\* ------------------------------------------------------ handler invocations
\* kind: the handler; stage: which of its awaits it is at; pc: "req" (request
\* sent), "resp" (served, response on its way), "done", "failed" (rejected);
\* arg: its argument; closure: the `labels` of the render it was created in;
\* resp: the response to its current request; sent: the requests it issued.
Invoke(kind, api, arg, closure) ==
    [kind |-> kind, stage |-> 1, pc |-> "req", arg |-> arg,
     closure |-> closure, resp |-> <<>>, sent |-> <<api>>]

NoArg == [id |-> Null]

\* one more invocation is suspended / an invocation moves on / returns or throws
Start(r) == hs (+) SetToBag({r})
Move(r, r2) == (hs (-) SetToBag({r})) (+) SetToBag({r2})
Settle(r) == hs (-) SetToBag({r})

TodoKinds == {"onSubmit", "onUpdate", "onDelete"}

CanStart == mounted /\ started < MaxHandlers

CurrentApi(h) == h.sent[Len(h.sent)]

\* ---------------------------------------------------------------- backend
\* the stores a page load may find: empty, or two labels and a todo
InitStores ==
    { [labels |-> <<>>, todos |-> <<>>, todoSeq |-> 1, labelSeq |-> 0],
      [labels |-> <<Label(0, "a"), Label(1, "b")>>,
       todos  |-> <<Todo(1, "x", FALSE, <<Label(1, "b")>>)>>,
       todoSeq |-> 2, labelSeq |-> 2] }

\* POST /todos
SrvAddTodo(p) ==
    /\ srvTodos' = Append(srvTodos,
          Todo(srvTodoSeq, p.text, FALSE,
               SelectSeq([i \in DOMAIN p.labels |->
                             IF \E l \in Range(srvLabels) : l.id = p.labels[i]
                             THEN CHOOSE l \in Range(srvLabels) : l.id = p.labels[i]
                             ELSE Label(Null, "")],
                         LAMBDA l : l.id # Null)))
    /\ srvTodoSeq' = srvTodoSeq + 1
    /\ UNCHANGED <<srvLabels, srvLabelSeq>>

\* PATCH /todos/{id}
SrvUpdateTodo(p) ==
    /\ srvTodos' = [i \in DOMAIN srvTodos |->
                      IF srvTodos[i].id = p.id
                      THEN [srvTodos[i] EXCEPT !.completed = p.completed]
                      ELSE srvTodos[i]]
    /\ UNCHANGED <<srvLabels, srvTodoSeq, srvLabelSeq>>

\* DELETE /todos/{id}
SrvDeleteTodo(p) ==
    /\ srvTodos' = SelectSeq(srvTodos, LAMBDA t : t.id # p.id)
    /\ UNCHANGED <<srvLabels, srvTodoSeq, srvLabelSeq>>

\* POST /labels
SrvAddLabel(p) ==
    /\ srvLabels' = Append(srvLabels, Label(srvLabelSeq, p.name))
    /\ srvLabelSeq' = srvLabelSeq + 1
    /\ UNCHANGED <<srvTodos, srvTodoSeq>>

\* DELETE /labels/{id}
SrvDeleteLabel(p) ==
    /\ srvLabels' = FilterOutId(srvLabels, p.id)
    /\ srvTodos' = [i \in DOMAIN srvTodos |->
                      [srvTodos[i] EXCEPT !.labels = FilterOutId(@, p.id)]]
    /\ UNCHANGED <<srvTodoSeq, srvLabelSeq>>

\* what the request handler h is waiting on does to the stores
Apply(h) ==
    LET api == CurrentApi(h)
    IN CASE api = "addTodoItem"     -> SrvAddTodo(h.arg)
         [] api = "updateTodoItem"  -> SrvUpdateTodo(h.arg)
         [] api = "deleteTodoItem"  -> SrvDeleteTodo(h.arg)
         [] api = "addLabelItem"    -> SrvAddLabel(h.arg)
         [] api = "deleteLabelItem" -> SrvDeleteLabel(h.arg)
         [] OTHER                   -> UNCHANGED back

\* the parsed JSON the request of handler h resolves to
Response(h) ==
    LET api == CurrentApi(h)
    IN CASE api = "getTodoItems"  -> srvTodos
         [] api = "getLabelItems" -> srvLabels
         [] api = "addLabelItem"  -> <<Label(srvLabelSeq, h.arg.name)>>
         [] OTHER                 -> <<>>

\* the backend serves the request handler h is waiting on
Serve(h) ==
    /\ h.pc = "req"
    /\ hs' = Move(h, [h EXCEPT !.pc = "resp", !.resp = Response(h)])
    /\ Apply(h)
    /\ UNCHANGED <<front, mounted, started, submitted, suppressed>>

\* the request of handler h fails, before or after the backend acted on it:
\* the await rejects, nothing catches it, the handler is gone
Reject(h) ==
    /\ h.pc = "req"
    /\ hs' = Settle(h)
    /\ \/ UNCHANGED back
       \/ Apply(h)
    /\ UNCHANGED <<front, mounted, started, submitted, suppressed>>

\* ------------------------------------------------------------------ mount
\* createRoot(...).render(<StrictMode><App/></StrictMode>): the mount effect
\* runs once, and a second time in a development build
Mount ==
    /\ ~mounted
    /\ mounted' = TRUE
    /\ \E n \in {1, 2} :
         hs' = [r \in {Invoke("mount", "getTodoItems", NoArg, <<>>)} |-> n]
    /\ UNCHANGED <<front, back, started, submitted, suppressed>>

\* useEffect: const todos = await getTodoItems(); setTodos(todos); getLabelItems()
MountSetTodos(h) ==
    /\ h.kind = "mount" /\ h.stage = 1 /\ h.pc = "resp"
    /\ todos' = h.resp
    /\ hs' = Move(h, [h EXCEPT !.stage = 2, !.pc = "req", !.resp = <<>>,
                                !.sent = Append(@, "getLabelItems")])
    /\ UNCHANGED <<labels, filterLabelId, editText, editLabels, back, mounted, started, submitted, suppressed>>

\* useEffect: const labelResponse = await getLabelItems(); setLabels(labelResponse)
MountSetLabels(h) ==
    /\ h.kind = "mount" /\ h.stage = 2 /\ h.pc = "resp"
    /\ labels' = h.resp
    /\ hs' = Settle(h)
    /\ UNCHANGED <<todos, filterLabelId, editText, editLabels, back, mounted, started, submitted,
                   suppressed>>

\* ---------------------------------------------------------------- TodoForm
\* onChange={(e) => setEditText(e.target.value)}
SetEditText(t) ==
    /\ mounted
    /\ editText' = t
    /\ UNCHANGED <<todos, labels, filterLabelId, editLabels, mounted, started, submitted, hs, back,
                   suppressed>>

\* onChange={() => setEditLabels((prev) => toggleLabels(prev, label))}
ToggleLabel(label) ==
    /\ mounted
    /\ editLabels' = toggleLabels(editLabels, label)
    /\ UNCHANGED <<todos, labels, filterLabelId, editText, mounted, started, submitted, hs, back,
                   suppressed>>

\* TodoApp.onSubmit up to its first await
onSubmit(payload) ==
    IF payload.text = ""
    THEN UNCHANGED <<hs, started, submitted>>
    ELSE /\ hs' = Start(Invoke("onSubmit", "addTodoItem", payload, <<>>))
         /\ started' = started + 1
         /\ submitted' = submitted + 1

\* <TodoForm onSubmit={onSubmit} />: the prop called with a payload
SubmitTodo(payload) ==
    /\ CanStart /\ submitted < MaxSubmits
    /\ onSubmit(payload)
    /\ UNCHANGED <<front, back, mounted, suppressed>>

\* the button without the presence checks on the text
addTodoHandler_NoCheck ==
    /\ mounted
    /\ CanStart /\ submitted < MaxSubmits
    /\ hs' = Start(Invoke("onSubmit", "addTodoItem",
                          [text |-> editText, labels |-> Ids(editLabels)], <<>>))
    /\ started' = started + 1
    /\ submitted' = submitted + 1
    /\ editText' = ""
    /\ UNCHANGED <<todos, labels, filterLabelId, editLabels, mounted, back, suppressed>>

\* the "add todo" button
addTodoHandler ==
    /\ mounted
    /\ IF editText = ""
       THEN /\ suppressed' = suppressed \cup {"todo"}
            /\ UNCHANGED <<hs, started, submitted, editText>>
       ELSE /\ CanStart /\ submitted < MaxSubmits
            /\ onSubmit([text |-> editText, labels |-> Ids(editLabels)])
            /\ editText' = ""
            /\ UNCHANGED suppressed
    /\ UNCHANGED <<todos, labels, filterLabelId, editLabels, mounted, back>>

\* ----------------------------------------------------------------- TodoApp
onUpdate(updateTodo) ==
    /\ CanStart
    /\ hs' = Start(Invoke("onUpdate", "updateTodoItem", updateTodo, <<>>))
    /\ started' = started + 1
    /\ UNCHANGED <<front, back, mounted, submitted, suppressed>>

onDelete(id) ==
    /\ CanStart
    /\ hs' = Start(Invoke("onDelete", "deleteTodoItem", [id |-> id], <<>>))
    /\ started' = started + 1
    /\ UNCHANGED <<front, back, mounted, submitted, suppressed>>

\* the refetch with the write not awaited
Refetch_NoAwait(h) ==
    /\ h.kind \in TodoKinds /\ h.stage = 1 /\ h.pc \in {"req", "resp"}
    /\ hs' = Move(h, [h EXCEPT !.stage = 2, !.pc = "req", !.resp = <<>>,
                                !.sent = Append(@, "getTodoItems")])
    /\ UNCHANGED <<front, back, mounted, started, submitted, suppressed>>

\* onSubmit / onUpdate / onDelete after `await <write>`: const todos = await getTodoItems()
Refetch(h) ==
    /\ h.kind \in TodoKinds /\ h.stage = 1 /\ h.pc = "resp"
    /\ hs' = Move(h, [h EXCEPT !.stage = 2, !.pc = "req", !.resp = <<>>,
                                !.sent = Append(@, "getTodoItems")])
    /\ UNCHANGED <<front, back, mounted, started, submitted, suppressed>>

\* setTodos that merges the response into the cached list
SetTodos_Merge(h) ==
    /\ h.kind \in TodoKinds /\ h.stage = 2 /\ h.pc = "resp"
    /\ todos' = todos \o SelectSeq(h.resp, LAMBDA t : t \notin Range(todos))
    /\ hs' = Settle(h)
    /\ UNCHANGED <<labels, filterLabelId, editText, editLabels, back, mounted, started, submitted, suppressed>>

\* onSubmit / onUpdate / onDelete after `await getTodoItems()`: setTodos(todos)
SetTodos(h) ==
    /\ h.kind \in TodoKinds /\ h.stage = 2 /\ h.pc = "resp"
    /\ todos' = h.resp
    /\ hs' = Settle(h)
    /\ UNCHANGED <<labels, filterLabelId, editText, editLabels, back, mounted, started, submitted, suppressed>>

onSelectLabel(label) ==
    /\ mounted
    /\ filterLabelId' = label.id
    /\ UNCHANGED <<todos, labels, editText, editLabels, mounted, started, submitted, hs, back,
                   suppressed>>

\* onSubmitNewLabel without the name check
onSubmitNewLabel_NoCheck(newLabel) ==
    /\ CanStart
    /\ hs' = Start(Invoke("onSubmitNewLabel", "addLabelItem", newLabel, labels))
    /\ started' = started + 1
    /\ UNCHANGED <<front, back, mounted, submitted, suppressed>>

\* onSubmitNewLabel up to its await
onSubmitNewLabel(newLabel) ==
    /\ mounted
    /\ IF ~SomeName(labels, newLabel.name)
       THEN /\ CanStart
            /\ hs' = Start(Invoke("onSubmitNewLabel", "addLabelItem", newLabel, labels))
            /\ started' = started + 1
            /\ UNCHANGED suppressed
       ELSE /\ suppressed' = suppressed \cup {"label"}
            /\ UNCHANGED <<hs, started>>
    /\ UNCHANGED <<front, back, mounted, submitted>>

\* onSubmitNewLabel after its await: setLabels([...labels, res])
AddLabelSetLabels(h) ==
    /\ h.kind = "onSubmitNewLabel" /\ h.pc = "resp"
    /\ labels' = h.closure \o h.resp
    /\ hs' = Settle(h)
    /\ UNCHANGED <<todos, filterLabelId, editText, editLabels, back, mounted, started, submitted,
                   suppressed>>

onDeleteLabel(id) ==
    /\ CanStart
    /\ hs' = Start(Invoke("onDeleteLabel", "deleteLabelItem", [id |-> id], <<>>))
    /\ started' = started + 1
    /\ UNCHANGED <<front, back, mounted, submitted, suppressed>>

\* the filter with the comparison the wrong way round
DeleteLabelSetLabels_Inverted(h) ==
    /\ h.kind = "onDeleteLabel" /\ h.pc = "resp"
    /\ labels' = SelectSeq(labels, LAMBDA l : l.id = h.arg.id)
    /\ hs' = Settle(h)
    /\ UNCHANGED <<todos, filterLabelId, editText, editLabels, back, mounted, started, submitted,
                   suppressed>>

\* onDeleteLabel after its await: setLabels((prev) => prev.filter(...))
DeleteLabelSetLabels(h) ==
    /\ h.kind = "onDeleteLabel" /\ h.pc = "resp"
    /\ labels' = FilterOutId(labels, h.arg.id)
    /\ hs' = Settle(h)
    /\ UNCHANGED <<todos, filterLabelId, editText, editLabels, back, mounted, started, submitted,
                   suppressed>>

\* ----------------------------------------------------------- specification
Init ==
    /\ todos = <<>>
    /\ labels = <<>>
    /\ filterLabelId = Null
    /\ editText = ""
    /\ editLabels = <<>>
    /\ mounted = FALSE
    /\ hs = EmptyBag
    /\ started = 0
    /\ submitted = 0
    /\ \E s \in InitStores :
         /\ srvTodos = s.todos
         /\ srvLabels = s.labels
         /\ srvTodoSeq = s.todoSeq
         /\ srvLabelSeq = s.labelSeq
    /\ suppressed = {}

Next ==
    \/ Mount
    \/ \E t \in Texts \cup {""} : SetEditText(t)
    \/ \E l \in Range(labels) : ToggleLabel(l)
    \/ addTodoHandler
    \/ \E t \in Range(dispTodo) : onUpdate([id |-> t.id, completed |-> ~t.completed])
    \/ \E t \in Range(dispTodo) : onDelete(t.id)
    \/ \E l \in Range(labels) \cup {[id |-> Null]} : onSelectLabel(l)
    \/ \E n \in Names : onSubmitNewLabel([name |-> n])
    \/ \E l \in Range(labels) : onDeleteLabel(l.id)
    \/ \E h \in BagToSet(hs) : Serve(h)
    \/ \E h \in BagToSet(hs) : Reject(h)
    \/ \E h \in BagToSet(hs) : MountSetTodos(h)
    \/ \E h \in BagToSet(hs) : MountSetLabels(h)
    \/ \E h \in BagToSet(hs) : Refetch(h)
    \/ \E h \in BagToSet(hs) : SetTodos(h)
    \/ \E h \in BagToSet(hs) : AddLabelSetLabels(h)
    \/ \E h \in BagToSet(hs) : DeleteLabelSetLabels(h)

Spec == Init /\ [][Next]_vars

\* The parts of the application, each with the mount, the backend and the
\* failing requests: the todo handlers write todos only, the label handlers
\* labels only, and the filter and the draft are local to their components.

\* the TodoForm and the todos it adds
NextForm ==
    \/ Mount
    \/ \E t \in Texts \cup {""} : SetEditText(t)
    \/ \E l \in Range(labels) : ToggleLabel(l)
    \/ addTodoHandler
    \/ \E h \in BagToSet(hs) : Serve(h)
    \/ \E h \in BagToSet(hs) : Reject(h)
    \/ \E h \in BagToSet(hs) : MountSetTodos(h)
    \/ \E h \in BagToSet(hs) : MountSetLabels(h)
    \/ \E h \in BagToSet(hs) : Refetch(h)
    \/ \E h \in BagToSet(hs) : SetTodos(h)

SpecForm == Init /\ [][NextForm]_vars

\* the three todo mutations, overlapping
NextTodo ==
    \/ Mount
    \/ \E t \in Texts \cup {""}, ls \in {<<>>} \cup {<<l.id>> : l \in Range(labels)} :
         SubmitTodo([text |-> t, labels |-> ls])
    \/ \E t \in Range(dispTodo) : onUpdate([id |-> t.id, completed |-> ~t.completed])
    \/ \E t \in Range(dispTodo) : onDelete(t.id)
    \/ \E h \in BagToSet(hs) : Serve(h)
    \/ \E h \in BagToSet(hs) : Reject(h)
    \/ \E h \in BagToSet(hs) : MountSetTodos(h)
    \/ \E h \in BagToSet(hs) : MountSetLabels(h)
    \/ \E h \in BagToSet(hs) : Refetch(h)
    \/ \E h \in BagToSet(hs) : SetTodos(h)

SpecTodo == Init /\ [][NextTodo]_vars

\* the SideNav: adding and deleting labels
NextLabel ==
    \/ Mount
    \/ \E n \in Names : onSubmitNewLabel([name |-> n])
    \/ \E l \in Range(labels) : onDeleteLabel(l.id)
    \/ \E h \in BagToSet(hs) : Serve(h)
    \/ \E h \in BagToSet(hs) : Reject(h)
    \/ \E h \in BagToSet(hs) : MountSetTodos(h)
    \/ \E h \in BagToSet(hs) : MountSetLabels(h)
    \/ \E h \in BagToSet(hs) : AddLabelSetLabels(h)
    \/ \E h \in BagToSet(hs) : DeleteLabelSetLabels(h)

SpecLabel == Init /\ [][NextLabel]_vars

\* the label filter over a changing todo list
NextFilter ==
    \/ Mount
    \/ \E l \in Range(labels) \cup {[id |-> Null]} : onSelectLabel(l)
    \/ \E t \in Range(dispTodo) : onUpdate([id |-> t.id, completed |-> ~t.completed])
    \/ \E t \in Range(dispTodo) : onDelete(t.id)
    \/ \E h \in BagToSet(hs) : Serve(h)
    \/ \E h \in BagToSet(hs) : Reject(h)
    \/ \E h \in BagToSet(hs) : MountSetTodos(h)
    \/ \E h \in BagToSet(hs) : MountSetLabels(h)
    \/ \E h \in BagToSet(hs) : Refetch(h)
    \/ \E h \in BagToSet(hs) : SetTodos(h)

SpecFilter == Init /\ [][NextFilter]_vars

\* ------------------------------------------------------------ step shapes
\* an invocation in state r left that state / came into it in this step
Gone(r) == CopiesIn(r, hs') < CopiesIn(r, hs)
Came(r) == CopiesIn(r, hs') > CopiesIn(r, hs)

\* the continuation of r ran on its response (a failed request never has pc "resp")
Delivered(r) == r.pc = "resp" /\ Gone(r)

\* handler kind k made its first request in this step
Begun(r, k) == r.kind = k /\ r.stage = 1 /\ r.pc = "req" /\ Came(r)

HasLabel(todo, f) == \E i \in DOMAIN todo.labels : todo.labels[i].id = f

\* ------------------------------------------------------------------ claims

\* C1: a submit with non-empty text t and draft labels L starts exactly one
\* create-todo request with payload {text: t, labels: ids of L in order}; the
\* one get-all-todos request of that handler is issued only from the
\* acknowledged create request, and its response replaces the cached todos.
C1_SubmitCreatesThenRefreshes ==
    /\ [](\A r \in BagToSet(hs) : r.kind = "onSubmit" =>
            r.sent = IF r.stage = 1 THEN <<"addTodoItem">>
                     ELSE <<"addTodoItem", "getTodoItems">>)
    /\ [][/\ submitted' # submitted =>
               /\ editText # ""
               /\ hs' = Start(Invoke("onSubmit", "addTodoItem",
                                     [text |-> editText, labels |-> Ids(editLabels)], <<>>))
               /\ todos' = todos
          /\ \A r \in BagToSet(hs') :
               (r.kind = "onSubmit" /\ r.stage = 2 /\ r.pc = "req" /\ Came(r)) =>
                   \E q \in BagToSet(hs) :
                       /\ q.kind = "onSubmit" /\ q.stage = 1 /\ q.pc = "resp" /\ Gone(q)
                       /\ q.arg = r.arg
                       /\ hs' = Move(q, r)
          /\ \A r \in BagToSet(hs) :
               (r.kind = "onSubmit" /\ r.stage = 2 /\ Delivered(r)) =>
                   todos' = r.resp /\ hs' = Settle(r)
         ]_vars

\* a todo created in this session with both labels, second label chosen first,
\* is in the cache: the create request and the refresh both completed
C1_Witness ==
    \E i \in DOMAIN todos :
        /\ todos[i].id = 2
        /\ todos[i].text = "x"
        /\ todos[i].labels = <<Label(1, "b"), Label(0, "a")>>

\* C2: a submit of the todo form while the draft text is empty starts no
\* create-todo request and no refresh and changes nothing of the cache; no
\* create-todo request ever starts from an empty draft text.
C2_EmptySubmitDoesNothing ==
    [][/\ ("todo" \in suppressed' /\ "todo" \notin suppressed) =>
              /\ editText = ""
              /\ UNCHANGED <<hs, started, submitted, front, back>>
       /\ editText = "" =>
              /\ submitted' = submitted
              /\ \A r \in BagToSet(hs') : ~Begun(r, "onSubmit")
      ]_vars

\* an empty submit was refused while the cache held todos
C2_Witness == "todo" \in suppressed /\ todos # <<>> /\ editText = ""

\* C3: submitting a new label whose name is already in the cached labels starts
\* no create-label request and leaves labels, todos and filter unchanged; no
\* create-label request ever starts for a name the cached labels hold.
C3_DuplicateLabelRefused ==
    [][/\ ("label" \in suppressed' /\ "label" \notin suppressed) =>
              UNCHANGED <<hs, started, submitted, front, back>>
       /\ \A r \in BagToSet(hs') :
              Begun(r, "onSubmitNewLabel") =>
                  /\ ~SomeName(labels, r.arg.name)
                  /\ r.sent = <<"addLabelItem">>
                  /\ UNCHANGED front
      ]_vars

\* a duplicate name was refused while the cache held labels
C3_Witness == "label" \in suppressed /\ labels # <<>>

\* C4: the cached labels never hold two labels with the same name.
C4_UniqueLabelNames ==
    \A i, j \in DOMAIN labels : i # j => labels[i].name # labels[j].name

\* C5: while a label id f is the active filter the displayed todos are the
\* cached todos that have a label with id f, in cached order; with no filter
\* the displayed todos are the cached todos.
C5_FilterShowsLabelled ==
    dispTodo = IF filterLabelId = Null
               THEN todos
               ELSE SelectSeq(todos, LAMBDA todo : HasLabel(todo, filterLabelId))

\* C6: deleting label k starts exactly one delete-label request and never a
\* get-all-todos request; when it is acknowledged the cached labels lose exactly
\* the entries with id k, whatever happened to them meanwhile, and the cached
\* todos stay as they are.
C6_DeleteLabelRemovesId ==
    /\ [](\A r \in BagToSet(hs) : r.kind = "onDeleteLabel" =>
            r.stage = 1 /\ r.sent = <<"deleteLabelItem">>)
    /\ [][/\ \A r \in BagToSet(hs') :
               Begun(r, "onDeleteLabel") => hs' = Start(r) /\ UNCHANGED front
          /\ \A r \in BagToSet(hs) :
               (r.kind = "onDeleteLabel" /\ Delivered(r)) =>
                   /\ labels' = FilterOutId(labels, r.arg.id)
                   /\ todos' = todos
                   /\ hs' = Settle(r)
         ]_vars

\* the acknowledgment of the delete of label 0 is on its way while another
\* delete, started and acknowledged meanwhile, has taken label 1 out of the
\* cache and the backend
C6_Witness ==
    /\ labels = <<Label(0, "a")>>
    /\ started = 2
    /\ \E r \in BagToSet(hs) :
           r.kind = "onDeleteLabel" /\ r.pc = "resp" /\ r.arg.id = 0
    /\ srvLabels = <<>>

\* C7: the mount issues exactly one get-all-todos request; only the mount
\* effect ever asks for the labels, and it runs once.
C7_MountFetchesOnce ==
    /\ [](\A r \in BagToSet(hs) :
            /\ "getLabelItems" \in Range(r.sent) => r.kind = "mount"
            /\ r.kind = "mount" => CopiesIn(r, hs) = 1)
    /\ [][(mounted' /\ ~mounted) =>
              hs' = SetToBag({Invoke("mount", "getTodoItems", NoArg, <<>>)})]_vars

\* C8: overlapping todo mutations neither block nor cancel each other, and the
\* cached todos are always the response of the get-all-todos request that was
\* delivered last, whatever the order the handlers started in.
C8_LastCompletedWins ==
    /\ [](\A r \in BagToSet(hs) :
            ENABLED (Serve(r) \/ MountSetTodos(r) \/ MountSetLabels(r)
                       \/ Refetch(r) \/ SetTodos(r)))
    /\ [][/\ \A r \in BagToSet(hs) :
               (CurrentApi(r) = "getTodoItems" /\ Delivered(r)) => todos' = r.resp
          /\ todos' # todos =>
               \E r \in BagToSet(hs) : CurrentApi(r) = "getTodoItems" /\ Delivered(r)
          /\ \A r \in BagToSet(hs') :
               (r.kind \in TodoKinds /\ r.stage = 1 /\ r.pc = "req" /\ Came(r)) =>
                   hs' = Start(r)
         ]_vars

\* two mutations ran to their end, the refresh delivered last was served
\* before the other mutation's write: the cache still shows a deleted todo
C8_Witness ==
    /\ hs = EmptyBag
    /\ started = 2
    /\ srvTodos = <<>>
    /\ todos = <<Todo(1, "x", TRUE, <<Label(1, "b")>>)>>

\* C9: when an add-label request is acknowledged the returned label is
\* appended to the labels cached at that moment.
C9_AddLabelAppends ==
    [][\A r \in BagToSet(hs) :
          (r.kind = "onSubmitNewLabel" /\ Delivered(r)) =>
              labels' = Append(labels, r.resp[1])]_vars

\* C10: a submit with non-empty text leaves the draft text and the draft label
\* selection empty.
C10_SubmitClearsDraft ==
    [][submitted' # submitted => editText' = "" /\ editLabels' = <<>>]_vars

====
